---- MODULE Spec2Model ----
(***************************************************************************)
(* Model of the scalar minimizers of mathslib and of the binomial          *)
(* coefficient its finite-difference stencils use:                        *)
(*   src/src/optimize/scalar/bracket.rs  (Bracket, bracket_*_minimize)     *)
(*   src/src/optimize/scalar/bound.rs    (bound_minimize)                  *)
(*   src/src/generals/binomial_coefficient.rs  (factorial, binomial_coeff) *)
(*                                                                         *)
(* The generic float type T is modelled as a grid of representable        *)
(* numbers (the integers) together with NaN.  Addition, subtraction and   *)
(* multiplication are exact on the grid; division rounds its quotient to  *)
(* a representable number (towards minus infinity), which is how a trial  *)
(* point can coincide with an existing bound.  Every comparison with NaN  *)
(* is false and every arithmetic operation on NaN yields NaN.              *)
(*                                                                         *)
(* The objective function func is an arbitrary pure function: its value   *)
(* at a point is chosen when the point is first evaluated and remembered  *)
(* in memo, so a later evaluation at the same point returns the same       *)
(* value.  calls counts the evaluations.                                   *)
(***************************************************************************)
EXTENDS Integers, Sequences, FiniteSets, TLC

\* ------------------------------------------------------------------ bounds
\* Largest finite abscissa the callers pass.
MaxX == 4
\* Largest finite objective value.
MaxF == 2
\* Largest finite abscissa and objective value in the runs of
\* bracket_pi_minimize.
MaxPIX == 4
MaxPIF == 3
\* Largest max_iter the callers pass.
MaxIter == 2
\* Largest number of longer_bound calls chained on one bracket by a direct caller.
MaxFolds == 1

\* Largest n and k binomial_coeff::<u8> is called with.
MaxOrder == 12

\* ------------------------------------------------------------ the type T
\* NaN, encoded as an integer no finite computation of the model reaches.
NaN == -1000000

IsNaN(a) == a = NaN

\* a < b of PartialOrd for floats: false when either side is NaN.
Lt(a, b) == ~IsNaN(a) /\ ~IsNaN(b) /\ a < b

\* a > b
Gt(a, b) == ~IsNaN(a) /\ ~IsNaN(b) /\ a > b

\* a == b of PartialEq for floats: NaN is equal to nothing, itself included.
Eq(a, b) == ~IsNaN(a) /\ ~IsNaN(b) /\ a = b

Add(a, b) == IF IsNaN(a) \/ IsNaN(b) THEN NaN ELSE a + b

Sub(a, b) == IF IsNaN(a) \/ IsNaN(b) THEN NaN ELSE a - b

Mul(a, b) == IF IsNaN(a) \/ IsNaN(b) THEN NaN ELSE a * b

\* a / b, the quotient rounded to the grid.  A zero divisor gives a
\* non-finite result, which the model does not tell apart from NaN.
Div(a, b) ==
    IF IsNaN(a) \/ IsNaN(b) \/ b = 0 THEN NaN
    ELSE IF b > 0 THEN a \div b
    ELSE (0 - a) \div (0 - b)

\* num_traits::abs
Abs(a) == IF IsNaN(a) THEN NaN ELSE IF a < 0 THEN 0 - a ELSE a

\* T::from_f64(0.0), T::from_f64(1.0), T::from(2.0)
Zero == 0
One == 1
Two == 2

\* T::from_f64((5.0.pow(0.5) + 1.0) / 2.0): the representable number nearest
\* to 1.618... on the grid.
GoldenRatio == 2

\* The abscissas and objective values the callers and func draw from.
Abscissas == (0..MaxX) \cup {NaN}
Values == (0..MaxF) \cup {NaN}
PIAbscissas == (0..MaxPIX) \cup {NaN}
PIValues == (0..MaxPIF) \cup {NaN}

\* ------------------------------------------------------------ results
Ok(v) == [ok |-> TRUE, val |-> v, err |-> <<>>]
Err(e) == [ok |-> FALSE, val |-> NaN, err |-> e]

DupeBoundForBracket == <<"DupeBoundForBracket">>
BracketNotADip == <<"BracketNotADip">>
InvalidRatio == <<"InvalidRatio">>
InvalidTolerance == <<"InvalidTolerance">>
DeadEnd == <<"DeadEnd">>
\* #[from] source: BracketError
BracketError(e) == <<"BracketError">> \o e

IsBracketError(e) == Len(e) = 2 /\ e[1] = "BracketError"

\* ------------------------------------------------------------ Bracket
Bracket(l, fl, c, fc, r, fr) ==
    [left |-> l, f_left |-> fl, right |-> r, f_right |-> fr,
     center |-> c, f_center |-> fc]

\* No Bracket: the value of bounds before one is built.
NoBracket == Bracket(NaN, NaN, NaN, NaN, NaN, NaN)

\* new_processed with the duplicate check made on the left pair only.
new_processed_left_pair(left, f_left, center, f_center, right, f_right) ==
    IF Eq(left, center)
        THEN Err(DupeBoundForBracket)
    ELSE IF ~(Lt(f_center, f_left) /\ Lt(f_center, f_right))
        THEN Err(BracketNotADip)
    ELSE Ok(Bracket(left, f_left, center, f_center, right, f_right))

\* new_processed with a dip check that lets a tie with a bound through.
new_processed_ties(left, f_left, center, f_center, right, f_right) ==
    IF Eq(left, center) \/ Eq(center, right)
        THEN Err(DupeBoundForBracket)
    ELSE IF Gt(f_center, f_left) \/ Gt(f_center, f_right)
            \/ IsNaN(f_center) \/ IsNaN(f_left) \/ IsNaN(f_right)
        THEN Err(BracketNotADip)
    ELSE Ok(Bracket(left, f_left, center, f_center, right, f_right))

new_processed(left, f_left, center, f_center, right, f_right) ==
    IF Eq(left, center) \/ Eq(center, right)
        THEN Err(DupeBoundForBracket)
    ELSE IF ~(Lt(f_center, f_left) /\ Lt(f_center, f_right))
        THEN Err(BracketNotADip)
    ELSE Ok(Bracket(left, f_left, center, f_center, right, f_right))

\* elements.sort_by(|a, b| a.partial_cmp(b).unwrap_or(Equal)) on three
\* elements: the stable insertion sort the standard library runs on short
\* slices, an element moving left only past elements it is Less than.
\* sort_by that compares the first two elements only.
sort_by_first_pair(x1, x2, x3) ==
    IF Lt(x2, x1) THEN <<x2, x1, x3>> ELSE <<x1, x2, x3>>

sort_by(x1, x2, x3) ==
    LET a == IF Lt(x2, x1) THEN x2 ELSE x1
        b == IF Lt(x2, x1) THEN x1 ELSE x2
    IN  IF Lt(x3, b)
            THEN IF Lt(x3, a) THEN <<x3, a, b>> ELSE <<a, x3, b>>
        ELSE <<a, b, x3>>

\* Bracket::new, func given by its values f on the three sorted elements.
Bracket_new(x1, x2, x3, f) ==
    LET elements == sort_by(x1, x2, x3)
    IN  new_processed(elements[1], f[elements[1]],
                      elements[2], f[elements[2]],
                      elements[3], f[elements[3]])

\* longer_bound that keeps the old center as center when the trial point
\* is lower and to its left.
longer_bound_keeps_center(self, new_val, f_new_val) ==
    IF Lt(new_val, self.center) /\ ~IsNaN(f_new_val)
            /\ ~Eq(f_new_val, self.f_center)
        THEN new_processed(new_val, f_new_val, self.center, self.f_center,
                           self.right, self.f_right)
    ELSE IF Lt(f_new_val, self.f_center) /\ Gt(new_val, self.center)
        THEN new_processed(self.center, self.f_center, new_val, f_new_val,
                           self.right, self.f_right)
    ELSE new_processed(self.left, self.f_left, self.center, self.f_center,
                       new_val, f_new_val)

\* Bracket::longer_bound, f_new_val being func(new_val).
longer_bound(self, new_val, f_new_val) ==
    IF Lt(f_new_val, self.f_center) /\ Lt(new_val, self.center)
        THEN new_processed(self.left, self.f_left, new_val, f_new_val,
                           self.center, self.f_center)
    ELSE IF Gt(f_new_val, self.f_center) /\ Lt(new_val, self.center)
        THEN new_processed(new_val, f_new_val, self.center, self.f_center,
                           self.right, self.f_right)
    ELSE IF Lt(f_new_val, self.f_center) /\ Gt(new_val, self.center)
        THEN new_processed(self.center, self.f_center, new_val, f_new_val,
                           self.right, self.f_right)
    ELSE new_processed(self.left, self.f_left, self.center, self.f_center,
                       new_val, f_new_val)

new_val_from_ratio(self, ratio) ==
    IF Gt(Sub(self.right, self.center), Sub(self.center, self.left))
        THEN Sub(self.right, Div(Sub(self.right, self.center), ratio))
    ELSE Add(self.left, Div(Sub(self.center, self.left), ratio))

\* x.powi(2)
powi2(x) == Mul(x, x)

\* The dividend of parabolic_interpolation.
pi_numerator(self) ==
    Add(Mul(Sub(self.f_right, self.f_center),
            Sub(powi2(self.center), powi2(self.left))),
        Mul(Sub(self.f_left, self.f_center),
            Sub(powi2(self.right), powi2(self.center))))

\* The divisor with its second term subtracted.
pi_denominator_difference(self) ==
    Mul(Two,
        Sub(Mul(Sub(self.f_right, self.f_center),
                Sub(self.center, self.left)),
            Mul(Sub(self.f_left, self.f_center),
                Sub(self.right, self.center))))

\* The divisor of parabolic_interpolation.
pi_denominator(self) ==
    Mul(Two,
        Add(Mul(Sub(self.f_right, self.f_center),
                Sub(self.center, self.left)),
            Mul(Sub(self.f_left, self.f_center),
                Sub(self.right, self.center))))

parabolic_interpolation(self) ==
    Div(pi_numerator(self), pi_denominator(self))

\* ------------------------------------------------------------ state
VARIABLES
    fn,       \* the function the caller calls
    args,     \* its arguments
    memo,     \* func on the points evaluated so far
    calls,    \* number of evaluations of func
    pc,       \* "entry", "built", "loop" or "done"
    bounds,   \* the Bracket held (let mut bounds), NoBracket before
    old_val,  \* let mut old_val
    iter,     \* loop iterations (or chained folds) run so far
    result,   \* the value returned by the last call
    prev,     \* the receiver of the last longer_bound call
    new_val,  \* the trial point of the last longer_bound call
    fold,     \* what the last longer_bound call returned
    x1,       \* bound_minimize: mut x1
    x2,       \* bound_minimize: mut x2
    c,        \* bound_minimize: let mut c
    d         \* bound_minimize: let mut d

vars == <<fn, args, memo, calls, pc, bounds, old_val, iter, result, prev,
          new_val, fold, x1, x2, c, d>>

\* The value returned before any call has returned.
NoResult == Err(<<"pending">>)

\* func evaluated at the points pts: the functions that extend memo to them.
Evaluate(pts) ==
    LET range == IF fn = "bracket_pi_minimize" THEN PIValues ELSE Values
    IN  {memo @@ g : g \in [pts \ DOMAIN memo -> range]}

EmptyMemo == [p \in {} |-> NaN]

Fresh ==
    /\ memo = EmptyMemo
    /\ calls = 0
    /\ pc = "entry"
    /\ bounds = NoBracket
    /\ old_val = NaN
    /\ iter = 0
    /\ result = NoResult
    /\ prev = NoBracket
    /\ new_val = NaN
    /\ fold = NoResult
    /\ x1 = NaN /\ x2 = NaN /\ c = NaN /\ d = NaN

\* ------------------------------------------------- direct Bracket callers
InitBracket ==
    /\ Fresh
    /\ \/ /\ fn = "Bracket::new"
          /\ args \in [x1 : Abscissas, x2 : Abscissas, x3 : Abscissas]
       \/ /\ fn = "Bracket::new_processed"
          /\ args \in [left : Abscissas, f_left : Values,
                       center : Abscissas, f_center : Values,
                       right : Abscissas, f_right : Values]

\* Bracket::new(x1, x2, x3, func): three evaluations, in sorted order.
New ==
    /\ pc = "entry" /\ fn = "Bracket::new"
    /\ \E f \in Evaluate({args.x1, args.x2, args.x3}) :
        /\ memo' = f
        /\ result' = Bracket_new(args.x1, args.x2, args.x3, f)
    /\ calls' = calls + 3
    /\ bounds' = IF result'.ok THEN result'.val ELSE bounds
    /\ pc' = IF result'.ok THEN "built" ELSE "done"
    /\ UNCHANGED <<fn, args, old_val, iter, prev, new_val, fold, x1, x2, c, d>>

\* Bracket::new_processed on six pre-computed values: no evaluation.
NewProcessed ==
    /\ pc = "entry" /\ fn = "Bracket::new_processed"
    /\ result' = new_processed(args.left, args.f_left, args.center,
                               args.f_center, args.right, args.f_right)
    /\ bounds' = IF result'.ok THEN result'.val ELSE bounds
    /\ pc' = IF result'.ok THEN "built" ELSE "done"
    /\ UNCHANGED <<fn, args, memo, calls, old_val, iter, prev, new_val,
                   fold, x1, x2, c, d>>

\* bounds.longer_bound(func, v) called directly on a built bracket.
LongerBound ==
    /\ pc = "built" /\ iter < MaxFolds
    /\ \E v \in Abscissas : \E f \in Evaluate({v}) :
        /\ memo' = f
        /\ new_val' = v
        /\ result' = longer_bound(bounds, v, f[v])
    /\ fold' = result'
    /\ calls' = calls + 1
    /\ prev' = bounds
    /\ bounds' = IF result'.ok THEN result'.val ELSE bounds
    /\ iter' = iter + 1
    /\ pc' = IF result'.ok THEN "built" ELSE "done"
    /\ UNCHANGED <<fn, args, old_val, x1, x2, c, d>>

NextBracket == New \/ NewProcessed \/ LongerBound

SpecBracket == InitBracket /\ [][NextBracket]_vars

\* ------------------------------------------------- the bracket minimizers
\* A range 0..=max_iter, which yields one value more.
range_exhausted_inclusive(i, max_iter) == i > max_iter

\* for _ in 0..max_iter: the range is exhausted once i iterations have run.
range_exhausted(i, max_iter) == i >= max_iter

\* The ratios and tolerances the callers pass: below and at the limit the
\* entry checks accept, and above it.
Ratios == {0, 1, 2}
Tolerances == {-1, 0, 1, 2}

\* The ratio bracket_ratio_minimize runs with: its own argument, or the one
\* bracket_gr_minimize passes on.
RatioArg == IF fn = "bracket_gr_minimize" THEN GoldenRatio ELSE args.ratio

\* single_bracket_minimize, f_new_val being func at the ratio-split point
\* (evaluated only when the ratio is accepted).
single_bracket_minimize(b, ratio, f_new_val) ==
    IF Lt(ratio, One) THEN Err(InvalidRatio)
    ELSE LET r == longer_bound(b, new_val_from_ratio(b, ratio), f_new_val)
         IN  IF r.ok THEN r ELSE Err(BracketError(r.err))

\* The points func is evaluated at by one call of single_bracket_minimize.
single_bracket_points(b, ratio) ==
    IF Lt(ratio, One) THEN {} ELSE {new_val_from_ratio(b, ratio)}

\* abs(old_val - bounds.f_center) < tolerance
within_tolerance(old, b, tolerance) ==
    Lt(Abs(Sub(old, b.f_center)), tolerance)

\* old_val = bounds.center, the assignment that ends an iteration.
next_old_val(b) == b.center

\* let mut old_val: T = bounds.f_center + tolerance
first_old_val(b, tolerance) == Add(b.f_center, tolerance)

InitRatio ==
    /\ Fresh
    /\ \/ /\ fn = "bracket_ratio_minimize"
          /\ args \in [x1 : Abscissas, x2 : Abscissas, x3 : Abscissas,
                       ratio : Ratios, tolerance : Tolerances,
                       max_iter : 0..MaxIter]
       \/ /\ fn = "bracket_gr_minimize"
          /\ args \in [x1 : Abscissas, x2 : Abscissas, x3 : Abscissas,
                       tolerance : Tolerances, max_iter : 0..MaxIter]

\* bracket_ratio_minimize up to the loop: the tolerance check, the initial
\* Bracket, old_val; with max_iter = 0 the loop is skipped and it returns.
RatioEntry ==
    /\ pc = "entry"
    /\ fn \in {"bracket_ratio_minimize", "bracket_gr_minimize"}
    /\ IF Lt(args.tolerance, Zero)
        THEN /\ result' = Err(InvalidTolerance)
             /\ pc' = "done"
             /\ UNCHANGED <<memo, calls, bounds, old_val>>
        ELSE \E f \in Evaluate({args.x1, args.x2, args.x3}) :
             LET r == Bracket_new(args.x1, args.x2, args.x3, f)
             IN  /\ memo' = f
                 /\ calls' = calls + 3
                 /\ IF ~r.ok
                     THEN /\ result' = Err(BracketError(r.err))
                          /\ pc' = "done"
                          /\ UNCHANGED <<bounds, old_val>>
                     ELSE /\ bounds' = r.val
                          /\ old_val' = first_old_val(r.val, args.tolerance)
                          /\ IF range_exhausted(0, args.max_iter)
                              THEN result' = Ok(r.val.center) /\ pc' = "done"
                              ELSE result' = NoResult /\ pc' = "loop"
    /\ UNCHANGED <<fn, args, iter, prev, new_val, fold, x1, x2, c, d>>

\* What a failed fold makes bracket_ratio_minimize return:
\* BracketError { .. } => break, then Ok(bounds.center) of the Bracket held.
ratio_fold_error_returned(b, e) == Err(BracketError(e))

ratio_fold_error(b, e) == Ok(b.center)

\* One iteration of the loop of bracket_ratio_minimize; the call returns
\* when the iteration breaks, returns an error or was the last one.
RatioIter ==
    /\ pc = "loop"
    /\ fn \in {"bracket_ratio_minimize", "bracket_gr_minimize"}
    /\ ~range_exhausted(iter, args.max_iter)
    /\ iter' = iter + 1
    /\ \E f \in Evaluate(single_bracket_points(bounds, RatioArg)) :
        LET trial == new_val_from_ratio(bounds, RatioArg)
            f_new_val == IF trial \in DOMAIN f THEN f[trial] ELSE NaN
            r == single_bracket_minimize(bounds, RatioArg, f_new_val)
        IN  /\ memo' = f
            /\ calls' = calls + Cardinality(single_bracket_points(bounds, RatioArg))
            /\ IF ~r.ok /\ ~IsBracketError(r.err)
                THEN \* _ => return Err(*error)
                     /\ result' = r
                     /\ pc' = "done"
                     /\ UNCHANGED <<bounds, old_val, prev, new_val, fold>>
                ELSE /\ prev' = bounds
                     /\ new_val' = trial
                     /\ fold' = longer_bound(bounds, trial, f_new_val)
                     /\ IF ~r.ok
                         THEN /\ result' = ratio_fold_error(bounds, r.err)
                              /\ pc' = "done"
                              /\ UNCHANGED <<bounds, old_val>>
                         ELSE /\ bounds' = r.val
                              /\ IF within_tolerance(old_val, r.val, args.tolerance)
                                  THEN /\ result' = Ok(r.val.center)
                                       /\ pc' = "done"
                                       /\ UNCHANGED old_val
                                  ELSE /\ old_val' = next_old_val(r.val)
                                       /\ IF range_exhausted(iter + 1, args.max_iter)
                                           THEN result' = Ok(r.val.center) /\ pc' = "done"
                                           ELSE result' = NoResult /\ pc' = "loop"
    /\ UNCHANGED <<fn, args, x1, x2, c, d>>

NextRatio == RatioEntry \/ RatioIter

SpecRatio == InitRatio /\ [][NextRatio]_vars

\* ------------------------------------------------- bracket_pi_minimize
\* old_val == bounds.f_center, the dead-end test.
dead_end(old, b) == Eq(old, b.f_center)

InitPI ==
    /\ Fresh
    /\ fn = "bracket_pi_minimize"
    /\ args \in [x1 : PIAbscissas, x2 : PIAbscissas, x3 : PIAbscissas,
                 tolerance : Tolerances, max_iter : 0..MaxIter]

\* bracket_pi_minimize up to the loop.
PIEntry ==
    /\ pc = "entry" /\ fn = "bracket_pi_minimize"
    /\ IF Lt(args.tolerance, Zero)
        THEN /\ result' = Err(InvalidTolerance)
             /\ pc' = "done"
             /\ UNCHANGED <<memo, calls, bounds, old_val>>
        ELSE \E f \in Evaluate({args.x1, args.x2, args.x3}) :
             LET r == Bracket_new(args.x1, args.x2, args.x3, f)
             IN  /\ memo' = f
                 /\ calls' = calls + 3
                 /\ IF ~r.ok
                     THEN /\ result' = Err(BracketError(r.err))
                          /\ pc' = "done"
                          /\ UNCHANGED <<bounds, old_val>>
                     ELSE /\ bounds' = r.val
                          /\ old_val' = first_old_val(r.val, args.tolerance)
                          /\ IF range_exhausted(0, args.max_iter)
                              THEN result' = Ok(r.val.center) /\ pc' = "done"
                              ELSE result' = NoResult /\ pc' = "loop"
    /\ UNCHANGED <<fn, args, iter, prev, new_val, fold, x1, x2, c, d>>

\* What a failed fold makes bracket_pi_minimize return: the ? operator
\* converts the BracketError and returns it.
pi_fold_error_recovered(b, e) == Ok(b.center)

pi_fold_error(b, e) == Err(BracketError(e))

\* One iteration of the loop of bracket_pi_minimize.
PIIter ==
    /\ pc = "loop" /\ fn = "bracket_pi_minimize"
    /\ ~range_exhausted(iter, args.max_iter)
    /\ iter' = iter + 1
    /\ LET trial == parabolic_interpolation(bounds)
       IN  \E f \in Evaluate({trial}) :
           LET r == longer_bound(bounds, trial, f[trial])
           IN  /\ memo' = f
               /\ calls' = calls + 1
               /\ prev' = bounds
               /\ new_val' = trial
               /\ fold' = r
               /\ IF ~r.ok
                   THEN /\ result' = pi_fold_error(bounds, r.err)
                        /\ pc' = "done"
                        /\ UNCHANGED <<bounds, old_val>>
                   ELSE /\ bounds' = r.val
                        /\ IF dead_end(old_val, r.val)
                            THEN /\ result' = Err(DeadEnd)
                                 /\ pc' = "done"
                                 /\ UNCHANGED old_val
                            ELSE IF within_tolerance(old_val, r.val, args.tolerance)
                            THEN /\ result' = Ok(r.val.center)
                                 /\ pc' = "done"
                                 /\ UNCHANGED old_val
                            ELSE /\ old_val' = next_old_val(r.val)
                                 /\ IF range_exhausted(iter + 1, args.max_iter)
                                     THEN result' = Ok(r.val.center) /\ pc' = "done"
                                     ELSE result' = NoResult /\ pc' = "loop"
    /\ UNCHANGED <<fn, args, x1, x2, c, d>>

NextPI == PIEntry \/ PIIter

SpecPI == InitPI /\ [][NextPI]_vars

\* ------------------------------------------------- bound_minimize
\* x2 - (x2 - x1) / ratio
bound_c(a, b, ratio) == Sub(b, Div(Sub(b, a), ratio))

\* d measured from x2 instead of x1.
bound_d_from_x2(a, b, ratio) == Add(b, Div(Sub(b, a), ratio))

\* x1 + (x2 - x1) / ratio
bound_d(a, b, ratio) == Add(a, Div(Sub(b, a), ratio))

\* (x2 + x1) / T::from(2.0)
bound_result(a, b) == Div(Add(b, a), Two)

\* (x2 - x1).abs() < tolerance
bound_converged(a, b, tolerance) == Lt(Abs(Sub(b, a)), tolerance)

InitBound ==
    /\ Fresh
    /\ fn = "bound_minimize"
    /\ args \in [x1 : Abscissas, x2 : Abscissas, ratio : Ratios,
                 tolerance : Tolerances, max_iter : 0..MaxIter]

\* bound_minimize up to the loop.
BoundEntry ==
    /\ pc = "entry" /\ fn = "bound_minimize"
    /\ IF Lt(args.tolerance, Zero)
        THEN /\ result' = Err(InvalidTolerance)
             /\ pc' = "done"
             /\ UNCHANGED <<x1, x2, c, d>>
        ELSE IF Lt(args.ratio, One)
        THEN /\ result' = Err(InvalidRatio)
             /\ pc' = "done"
             /\ UNCHANGED <<x1, x2, c, d>>
        ELSE /\ x1' = args.x1
             /\ x2' = args.x2
             /\ c' = bound_c(args.x1, args.x2, args.ratio)
             /\ d' = bound_d(args.x1, args.x2, args.ratio)
             /\ IF range_exhausted(0, args.max_iter)
                 THEN result' = Ok(bound_result(args.x1, args.x2)) /\ pc' = "done"
                 ELSE result' = NoResult /\ pc' = "loop"
    /\ UNCHANGED <<fn, args, memo, calls, bounds, old_val, iter, prev, new_val,
                   fold>>

\* One iteration of the loop of bound_minimize.
BoundIter ==
    /\ pc = "loop" /\ fn = "bound_minimize"
    /\ ~range_exhausted(iter, args.max_iter)
    /\ iter' = iter + 1
    /\ IF bound_converged(x1, x2, args.tolerance)
        THEN \* break
             /\ result' = Ok(bound_result(x1, x2))
             /\ pc' = "done"
             /\ UNCHANGED <<memo, calls, x1, x2, c, d>>
        ELSE \E f \in Evaluate({c, d}) :
             /\ memo' = f
             /\ calls' = calls + 2
             /\ IF Lt(f[c], f[d])
                 THEN x2' = d /\ x1' = x1
                 ELSE x1' = c /\ x2' = x2
             /\ c' = bound_c(x1', x2', args.ratio)
             /\ d' = bound_d(x1', x2', args.ratio)
             /\ IF range_exhausted(iter + 1, args.max_iter)
                 THEN result' = Ok(bound_result(x1', x2')) /\ pc' = "done"
                 ELSE result' = NoResult /\ pc' = "loop"
    /\ UNCHANGED <<fn, args, bounds, old_val, prev, new_val, fold>>

NextBound == BoundEntry \/ BoundIter

SpecBound == InitBound /\ [][NextBound]_vars

\* ------------------------------------------------- binomial_coeff::<u8>
\* u8::MAX, the largest value of the type the stencils pass (n: u8, i: u8).
U8Max == 255

\* A panic of the running program, with its message.
Panic(msg) == [ok |-> FALSE, val |-> NaN, err |-> <<"panic", msg>>]

InputMustBePositive == <<"InputMustBePositive">>
NmustBeLargest == <<"NmustBeLargest">>
\* #[from] source: FactorialError
FactorialError(e) == <<"FactorialError">> \o e

\* a * b on u8.  A product above u8::MAX panics in a build with overflow
\* checks (the debug profile) and wraps modulo 2^8 in a build without them
\* (the release profile).
mul_u8(a, b, overflow_checks) ==
    IF a * b > U8Max
        THEN IF overflow_checks
                THEN Panic("attempt to multiply with overflow")
             ELSE Ok((a * b) % (U8Max + 1))
    ELSE Ok(a * b)

\* a / b on u8: a zero divisor panics in every build.
div_u8(a, b) ==
    IF b = 0 THEN Panic("attempt to divide by zero") ELSE Ok(a \div b)

RECURSIVE factorial(_, _)
factorial(n, overflow_checks) ==
    IF n < 0 THEN Err(InputMustBePositive)
    ELSE IF n = 0 \/ n = 1 THEN Ok(1)
    ELSE LET rest == factorial(n - 1, overflow_checks)
         IN  IF ~rest.ok THEN rest
             ELSE mul_u8(n, rest.val, overflow_checks)

\* The ? operator on a factorial: a FactorialError is converted, a panic
\* unwinds as it is.
try_factorial(r) ==
    IF ~r.ok /\ r.err = InputMustBePositive
        THEN Err(FactorialError(r.err))
    ELSE r

binomial_coeff(n, k, overflow_checks) ==
    IF k > n THEN Err(NmustBeLargest)
    ELSE LET fn_ == try_factorial(factorial(n, overflow_checks))
             fk == try_factorial(factorial(k, overflow_checks))
             fnk == try_factorial(factorial(n - k, overflow_checks))
         IN  IF ~fn_.ok THEN fn_
             ELSE IF ~fk.ok THEN fk
             ELSE IF ~fnk.ok THEN fnk
             ELSE LET product == mul_u8(fk.val, fnk.val, overflow_checks)
                  IN  IF ~product.ok THEN product
                      ELSE div_u8(fn_.val, product.val)

InitBinomial ==
    /\ Fresh
    /\ fn = "binomial_coeff"
    /\ args \in [n : 0..MaxOrder, k : 0..MaxOrder]

\* binomial_coeff::<u8>(n, k), in a build with or without overflow checks.
BinomialCoeff ==
    /\ pc = "entry" /\ fn = "binomial_coeff"
    /\ \E overflow_checks \in BOOLEAN :
        result' = binomial_coeff(args.n, args.k, overflow_checks)
    /\ pc' = "done"
    /\ UNCHANGED <<fn, args, memo, calls, bounds, old_val, iter, prev, new_val,
                   fold, x1, x2, c, d>>

NextBinomial == BinomialCoeff

SpecBinomial == InitBinomial /\ [][NextBinomial]_vars

\* ================================================================ claims
\* ------------------------------------------------------------ vocabulary
Finite(a) == ~IsNaN(a)

Min3(a, b, e) == IF a <= b /\ a <= e THEN a ELSE IF b <= e THEN b ELSE e
Max3(a, b, e) == IF a >= b /\ a >= e THEN a ELSE IF b >= e THEN b ELSE e
Mid3(a, b, e) == a + b + e - Min3(a, b, e) - Max3(a, b, e)

\* left < center < right
Ordered(b) == Lt(b.left, b.center) /\ Lt(b.center, b.right)

\* f_center < f_left and f_center < f_right
Dip(b) == Lt(b.f_center, b.f_left) /\ Lt(b.f_center, b.f_right)

\* The call of constructor f has returned and nothing was called after it.
Returned(f) == fn = f /\ pc # "entry" /\ iter = 0

\* A longer_bound call has returned (the last call made).
Folded == fold # NoResult

AnyTwoEqual(a, b, e) == Eq(a, b) \/ Eq(b, e) \/ Eq(a, e)

ArgsDip ==
    IF fn = "Bracket::new"
        THEN LET e == sort_by(args.x1, args.x2, args.x3)
             IN  Lt(memo[e[2]], memo[e[1]]) /\ Lt(memo[e[2]], memo[e[3]])
    ELSE Lt(args.f_center, args.f_left) /\ Lt(args.f_center, args.f_right)

\* The abscissas a constructor call is given are all numbers.
ArgsFinite ==
    IF fn = "Bracket::new"
        THEN Finite(args.x1) /\ Finite(args.x2) /\ Finite(args.x3)
    ELSE Finite(args.left) /\ Finite(args.center) /\ Finite(args.right)

C3_NewSortsAndSucceeds ==
    (Returned("Bracket::new")
        /\ Finite(args.x1) /\ Finite(args.x2) /\ Finite(args.x3)
        /\ ~AnyTwoEqual(args.x1, args.x2, args.x3)
        /\ LET m == memo[Mid3(args.x1, args.x2, args.x3)]
           IN  /\ Lt(m, memo[Min3(args.x1, args.x2, args.x3)])
               /\ Lt(m, memo[Max3(args.x1, args.x2, args.x3)]))
    => LET lo == Min3(args.x1, args.x2, args.x3)
           mi == Mid3(args.x1, args.x2, args.x3)
           hi == Max3(args.x1, args.x2, args.x3)
       IN  /\ result = Ok([left |-> lo, f_left |-> memo[lo],
                           center |-> mi, f_center |-> memo[mi],
                           right |-> hi, f_right |-> memo[hi]])
           /\ bounds = result.val

\* C3 witness: a dip given in descending argument order is accepted.
C3_Witness ==
    /\ Returned("Bracket::new")
    /\ Lt(args.x3, args.x2) /\ Lt(args.x2, args.x1)
    /\ result.ok
    /\ result.val.left = args.x3 /\ result.val.right = args.x1

\* ------------------------------------------------------------------ C4
\* C4, as stated: whenever longer_bound returns successfully on a valid
\* bracket (left < center < right with a dip), for any trial abscissa and
\* any objective value there, the returned Bracket has left < center < right.
\* (Stated here for trial abscissas that are numbers, where it already fails.)
C4_FoldKeepsOrdering ==
    (Folded /\ fold.ok /\ Ordered(prev) /\ Dip(prev) /\ Finite(new_val))
    => Ordered(fold.val)

\* ------------------------------------------------------------------ C10
\* C10: longer_bound classifies the trial point by (f(new_val) lower than
\* f_center or higher) and (new_val left or right of center): lower/left
\* builds (left, new_val, center), higher/left (new_val, center, right),
\* lower/right (center, new_val, right), higher/right (left, center,
\* new_val), the values travelling with their abscissas and the retained
\* points unchanged; the triple goes through the validated constructor.
C10_FoldTable ==
    Folded =>
        LET f_new == memo[new_val]
            lower == Lt(f_new, prev.f_center)
            higher == Gt(f_new, prev.f_center)
            leftOf == Lt(new_val, prev.center)
            rightOf == Gt(new_val, prev.center)
            built(l, fl, m, fm, r, fr) ==
                /\ fold.ok =>
                    fold.val = [left |-> l, f_left |-> fl,
                                center |-> m, f_center |-> fm,
                                right |-> r, f_right |-> fr]
                /\ ~fold.ok =>
                    \/ /\ fold.err = DupeBoundForBracket
                       /\ Eq(l, m) \/ Eq(m, r)
                    \/ /\ fold.err = BracketNotADip
                       /\ ~(Lt(fm, fl) /\ Lt(fm, fr))
        IN  /\ (lower /\ leftOf) =>
                built(prev.left, prev.f_left, new_val, f_new,
                      prev.center, prev.f_center)
            /\ (higher /\ leftOf) =>
                built(new_val, f_new, prev.center, prev.f_center,
                      prev.right, prev.f_right)
            /\ (lower /\ rightOf) =>
                built(prev.center, prev.f_center, new_val, f_new,
                      prev.right, prev.f_right)
            /\ (higher /\ rightOf) =>
                built(prev.left, prev.f_left, prev.center, prev.f_center,
                      new_val, f_new)

\* C10 witness: a lower trial point left of center became the center and
\* the old center the right bound.
C10_Witness ==
    /\ Folded /\ fold.ok /\ Ordered(prev)
    /\ Lt(memo[new_val], prev.f_center) /\ Lt(new_val, prev.center)
    /\ Lt(prev.left, new_val)
    /\ fold.val.center = new_val /\ fold.val.right = prev.center
    /\ fold.val.left = prev.left

\* ------------------------------------------------------------------ C5
\* C5, as stated: a bracket minimizer called with tolerance < 0 returns
\* InvalidTolerance, and bracket_ratio_minimize called with ratio < 1 (and
\* an acceptable tolerance) returns InvalidRatio, each without having
\* evaluated the objective function, whatever the abscissas and max_iter.
\* (Stated here for abscissas that are numbers, where it already fails.)
C5_ParameterErrorsFailFast ==
    /\ (pc = "done" /\ Lt(args.tolerance, Zero))
        => (result = Err(InvalidTolerance) /\ calls = 0)
    /\ (pc = "done" /\ fn = "bracket_ratio_minimize"
            /\ Finite(args.x1) /\ Finite(args.x2) /\ Finite(args.x3)
            /\ ~Lt(args.tolerance, Zero) /\ Lt(args.ratio, One))
        => (result = Err(InvalidRatio) /\ calls = 0)

\* ------------------------------------------------------------------ C6
StructuralErrors ==
    {Err(BracketError(DupeBoundForBracket)), Err(BracketError(BracketNotADip))}

\* C6: in bracket_ratio_minimize and bracket_gr_minimize a fold that fails
\* with a structural error ends the call with Ok(center of the Bracket held
\* before that fold); a structural error is returned only when the initial
\* Bracket could not be built, and then it is returned.
C6_RatioRecoversFoldErrors ==
    /\ (Folded /\ ~fold.ok) =>
        /\ fold.err \in {DupeBoundForBracket, BracketNotADip}
        /\ pc = "done"
        /\ result = Ok(prev.center)
        /\ bounds = prev
    /\ (~result.ok /\ IsBracketError(result.err)) =>
        (~Folded /\ bounds = NoBracket /\ iter = 0)
    /\ (pc = "done" /\ bounds = NoBracket /\ ~Lt(args.tolerance, Zero)) =>
        result \in StructuralErrors

\* C6 witness: the second fold fails on a Bracket the first fold had
\* changed, and the call returns that Bracket's center.
C6_Witness ==
    /\ Folded /\ ~fold.ok /\ iter = 2
    /\ Finite(args.x1) /\ Finite(args.x2) /\ Finite(args.x3)
    /\ bounds.center # Mid3(args.x1, args.x2, args.x3)
    /\ result = Ok(bounds.center)

\* ------------------------------------------------------------------ C7
\* C7: bracket_pi_minimize returns the structural error, wrapped as
\* BracketError, when the initial Bracket cannot be built and when any
\* longer_bound fold fails; such a run never returns Ok.
C7_PIReturnsFoldErrors ==
    /\ (Folded /\ ~fold.ok) =>
        /\ fold.err \in {DupeBoundForBracket, BracketNotADip}
        /\ pc = "done"
        /\ result = Err(BracketError(fold.err))
    /\ (pc = "done" /\ bounds = NoBracket /\ ~Lt(args.tolerance, Zero)) =>
        result \in StructuralErrors
    /\ result.ok => (bounds # NoBracket /\ (Folded => fold.ok))

\* C7 witness: a fold of the second iteration fails and its error is returned.
C7_Witness ==
    /\ Folded /\ ~fold.ok /\ iter = 2
    /\ result = Err(BracketError(fold.err))

\* ------------------------------------------------------------------ C8
\* C8, as stated: bracket_pi_minimize fails with DeadEnd if and only if the
\* fold of an iteration leaves the center value exactly equal to the one
\* before it and the tolerance check does not accept that step.
C8_DeadEndIffStagnation ==
    (Folded /\ fold.ok
        /\ Finite(args.x1) /\ Finite(args.x2) /\ Finite(args.x3))
    => ((result = Err(DeadEnd))
        <=> (/\ Eq(prev.f_center, bounds.f_center)
             /\ ~Lt(Abs(Sub(prev.f_center, bounds.f_center)), args.tolerance)))

\* ------------------------------------------------------------------ C9
\* The parameters of bound_minimize pass both entry checks.
BoundParametersOk == ~Lt(args.tolerance, Zero) /\ ~Lt(args.ratio, One)

C9_Returns ==
    /\ (pc = "done" /\ Lt(args.tolerance, Zero))
        => (result = Err(InvalidTolerance) /\ calls = 0)
    /\ (pc = "done" /\ ~Lt(args.tolerance, Zero) /\ Lt(args.ratio, One))
        => (result = Err(InvalidRatio) /\ calls = 0)
    /\ (pc = "done" /\ BoundParametersOk) =>
        /\ result = Ok(Div(Add(x2, x1), Two))
        /\ calls <= 2 * args.max_iter
        /\ \/ calls = 2 * args.max_iter
           \/ Lt(Abs(Sub(x2, x1)), args.tolerance)
    /\ (pc # "entry" /\ BoundParametersOk /\ calls = 0) =>
        (x1 = args.x1 /\ x2 = args.x2)

C9_Step ==
    pc = "loop" =>
        IF Lt(Abs(Sub(x2, x1)), args.tolerance)
            THEN pc' = "done" /\ calls' = calls /\ x1' = x1 /\ x2' = x2
        ELSE LET cc == Sub(x2, Div(Sub(x2, x1), args.ratio))
                 dd == Add(x1, Div(Sub(x2, x1), args.ratio))
             IN  /\ calls' = calls + 2
                 /\ {cc, dd} \subseteq DOMAIN memo'
                 /\ IF Lt(memo'[cc], memo'[dd])
                     THEN x2' = dd /\ x1' = x1
                     ELSE x1' = cc /\ x2' = x2

RunFinite ==
    /\ Finite(args.x1) /\ Finite(args.x2) /\ Finite(args.x3)
    /\ \A p \in DOMAIN memo : Finite(memo[p])

\* C11, as stated: in the loop of a bracket minimizer, after a successful
\* fold made before the last allowed iteration, the loop stops if and only
\* if |f_center of the previous Bracket - f_center of the new Bracket| is
\* within tolerance, in the first iteration as in the later ones.
\* (Stated here for the ratio minimizers and for runs over numbers.)
C11_StopsIffWithinTolerance ==
    (Folded /\ fold.ok /\ RunFinite /\ iter < args.max_iter)
    => ((pc = "done")
        <=> Lt(Abs(Sub(prev.f_center, bounds.f_center)), args.tolerance))

\* ------------------------------------------------------------------ C12
\* The initial triple is valid: three distinct numbers whose sorted middle
\* has the strictly lowest objective value, and the tolerance is accepted.
ValidInitialTriple ==
    /\ Finite(args.x1) /\ Finite(args.x2) /\ Finite(args.x3)
    /\ ~AnyTwoEqual(args.x1, args.x2, args.x3)
    /\ ~Lt(args.tolerance, Zero)
    /\ {args.x1, args.x2, args.x3} \subseteq DOMAIN memo
    /\ LET m == memo[Mid3(args.x1, args.x2, args.x3)]
       IN  /\ Lt(m, memo[Min3(args.x1, args.x2, args.x3)])
           /\ Lt(m, memo[Max3(args.x1, args.x2, args.x3)])

C12_Returns ==
    /\ iter <= args.max_iter
    /\ calls <= 3 + args.max_iter
    /\ calls \in {0, 3 + iter, 3 + iter - 1}
    /\ (calls = 3 + iter - 1 /\ iter > 0) => result = Err(InvalidRatio)
    /\ pc = "loop" => (iter < args.max_iter /\ result = NoResult)
    /\ pc = "done" => result # NoResult
    /\ (pc = "done" /\ iter = args.max_iter /\ Folded /\ fold.ok
            /\ result # Err(DeadEnd))
        => result = Ok(bounds.center)
    /\ (pc = "done" /\ args.max_iter = 0 /\ ValidInitialTriple)
        => (result = Ok(Mid3(args.x1, args.x2, args.x3)) /\ calls = 3)

C12_Step ==
    /\ pc = "entry" => (pc' # "entry" /\ calls' \in {calls, calls + 3})
    /\ pc = "loop" =>
        /\ iter' = iter + 1
        /\ \/ calls' = calls + 1
           \/ calls' = calls /\ result' = Err(InvalidRatio) /\ pc' = "done"
    /\ pc # "done"

Le(a, b) == Lt(a, b) \/ Eq(a, b)

\* right - left
Width(b) == Sub(b.right, b.left)

\* A ratio minimizer runs with a ratio >= 1 and holds a Bracket.
RatioLoopState ==
    /\ fn \in {"bracket_ratio_minimize", "bracket_gr_minimize"}
    /\ Le(One, RatioArg)
    /\ bounds # NoBracket

\* The Bracket held is valid, the last trial point lay in the wider
\* sub-interval of the Bracket it was computed from, between its center and
\* its outer bound, and the Bracket a fold returned lies within the previous
\* one and is no wider.
RatioInvariants ==
    /\ Ordered(bounds) /\ Dip(bounds)
    /\ Folded =>
        IF Gt(Sub(prev.right, prev.center), Sub(prev.center, prev.left))
            THEN Le(prev.center, new_val) /\ Le(new_val, prev.right)
        ELSE Le(prev.left, new_val) /\ Le(new_val, prev.center)
    /\ (Folded /\ fold.ok) =>
        /\ bounds = fold.val
        /\ Le(prev.left, bounds.left) /\ Le(bounds.right, prev.right)
        /\ Le(Width(bounds), Width(prev))

\* C13, as stated: in bracket_ratio_minimize with ratio >= 1, in every
\* reachable loop state the held Bracket satisfies left < center < right and
\* the dip, the ratio-split trial point lying inside the wider sub-interval
\* between center and the outer bound; each new Bracket's [left, right] is
\* contained in the previous one's and its width never increases.
C13_RatioKeepsInvariants == RatioLoopState => RatioInvariants

\* The extent of the failure: for calls whose three abscissas are numbers
\* the statement holds; a NaN abscissa can be built into the initial
\* Bracket, as its center or as a bound, when func gives it a fitting value.
C13_RatioKeepsInvariantsOnNumbers ==
    (RatioLoopState
        /\ Finite(args.x1) /\ Finite(args.x2) /\ Finite(args.x3))
    => RatioInvariants

\* Two folds in a row, the second returning a Bracket strictly narrower
\* than the one it was given, from three numbers.
C13_NarrowsTwice ==
    /\ RatioLoopState /\ RunFinite
    /\ iter = 2 /\ Folded /\ fold.ok
    /\ Lt(Width(bounds), Width(prev))
    /\ Lt(Width(prev), Sub(Max3(args.x1, args.x2, args.x3),
                           Min3(args.x1, args.x2, args.x3)))
    /\ Ordered(bounds) /\ Dip(bounds)

\* ------------------------------------------------------------------ C14
\* In exact arithmetic the vertex num / den of Bracket b lies strictly
\* between left and right, the divisor den being strictly positive.
VertexStrictlyInside(b) ==
    LET num == pi_numerator(b)
        den == pi_denominator(b)
    IN  /\ Finite(num) /\ Finite(den)
        /\ den > 0
        /\ b.left * den < num
        /\ num < b.right * den

\* C14: for every Bracket with left < center < right and the dip, the
\* divisor of parabolic_interpolation is strictly positive and the vertex,
\* in exact arithmetic, lies strictly between left and right; in
\* bracket_pi_minimize over numbers every Bracket handed to
\* parabolic_interpolation is such a Bracket, so the trial point passed to
\* longer_bound (the vertex rounded to a representable number) lies inside
\* the Bracket held.
C14_VertexInsideBracket ==
    /\ (bounds # NoBracket /\ Ordered(bounds) /\ Dip(bounds))
        => VertexStrictlyInside(bounds)
    /\ (Folded /\ Finite(args.x1) /\ Finite(args.x2) /\ Finite(args.x3)) =>
        /\ Ordered(prev) /\ Dip(prev)
        /\ VertexStrictlyInside(prev)
        /\ new_val = Div(pi_numerator(prev), pi_denominator(prev))
        /\ Le(prev.left, new_val) /\ Le(new_val, prev.right)

\* C14 witness: in the second iteration the vertex of a Bracket the first
\* iteration had changed fell strictly between its left bound and its
\* center, and was folded in.
C14_Witness ==
    /\ Folded /\ fold.ok /\ iter = 2 /\ RunFinite
    /\ prev.center # Mid3(args.x1, args.x2, args.x3)
    /\ Lt(prev.left, new_val) /\ Lt(new_val, prev.center)
    /\ VertexStrictlyInside(prev)

\* ------------------------------------------------------------------ C15
\* n! and the binomial coefficient over the integers (Pascal's rule).
RECURSIVE Factorial(_)
Factorial(n) == IF n <= 1 THEN 1 ELSE n * Factorial(n - 1)

RECURSIVE Choose(_, _)
Choose(n, k) ==
    IF k < 0 \/ k > n THEN 0
    ELSE IF k = 0 \/ k = n THEN 1
    ELSE Choose(n - 1, k - 1) + Choose(n - 1, k)

\* C15, as stated: binomial_coeff::<u8>(n, k) returns NmustBeLargest
\* exactly when k > n and otherwise the binomial coefficient n! / (k! (n-k)!),
\* none of factorial(n), factorial(k), factorial(n-k) exceeding the 8-bit
\* range.
C15_BinomialExactInU8 ==
    (fn = "binomial_coeff" /\ pc = "done") =>
        /\ (result = Err(NmustBeLargest)) <=> (args.k > args.n)
        /\ args.k <= args.n =>
            /\ Factorial(args.n) <= U8Max
            /\ Factorial(args.k) <= U8Max
            /\ Factorial(args.n - args.k) <= U8Max
            /\ result = Ok(Choose(args.n, args.k))

\* The extent of the failure: for n <= 5 the statement holds, and
\* NmustBeLargest is returned exactly when k > n for every n.
C15_BinomialExactUpToFive ==
    (fn = "binomial_coeff" /\ pc = "done") =>
        /\ (result = Err(NmustBeLargest)) <=> (args.k > args.n)
        /\ (args.k <= args.n /\ args.n <= 5) =>
            /\ Factorial(args.n) <= U8Max
            /\ result = Ok(Choose(args.n, args.k))

====
